---- MODULE Spec2Model ----
(***************************************************************************)
(* trot: a flat stream of span records is decoded and indexed, assembled   *)
(* into a tree and rendered as nested HTML containers.                     *)
(*                                                                         *)
(* The repository holds two variants of the program, src/unnamed/part_000  *)
(* (counts records, reports missing parents, normalizes point spans) and   *)
(* src/main.go (requires exactly one root span, no normalization).  Both   *)
(* are modelled; the variable variant says which one a behaviour runs.     *)
(*                                                                         *)
(* Span records live on a heap (a sequence); a *Span is an index into it,  *)
(* so that a write through one pointer is seen through every other.        *)
(***************************************************************************)
EXTENDS Integers, Sequences, FiniteSets, TLC

\* Bounds of the model.
MaxRecords == 3
MaxInstant == 1
ZoneRecords == 2

\* The call depth at which the goroutine stack is taken to be exhausted.  A
\* recursion that ends never nests deeper than one frame per record plus the
\* root, so only an endless recursion reaches it.
MaxDepth == MaxRecords + 2

\* The sentinel parent id of a root span.
RootID == "0000000000000000"

\* The ids a record may carry as its parent, and as its own.  An id that no
\* record of the input bears is, as a parent, a missing one.
IDs == {RootID, "a", "b", "c"}
SpanIDs == {"a", "b", "c"}

Unnamed == "part_000"
MainGo == "main.go"

\* A time.Time: the instant and the location it carries.  Compare and Sub
\* read the instant only; the == operator of Go compares the whole struct.
\* UTC is the nil *Location of a timestamp written with Z.  Fixed is a zone
\* other than UTC; the timestamps that carry it are taken to share one
\* *Location (the local zone, or the runtime's cached fixed zone).
UTC == "UTC"
Fixed == "+01:00"
Time(t, loc) == [t |-> t, loc |-> loc]
\* The zero time.Time (instant 0, nil location, which is UTC).
ZeroTime == Time(0, UTC)

Times(zs) == {Time(t, z) : t \in 0 .. MaxInstant, z \in zs}

\* The fields of Span that the program reads.
Span(id, parent, name, start, end) ==
  [id |-> id, parent |-> parent, name |-> name, start |-> start, end |-> end]

\* The inputs: up to MaxRecords records with timestamps in UTC, or up to
\* ZoneRecords records whose timestamps may carry another zone and whose id
\* may be the sentinel.
Inputs ==
  {[zones |-> {UTC}, ids |-> SpanIDs, limit |-> MaxRecords],
   [zones |-> {UTC, Fixed}, ids |-> IDs, limit |-> ZoneRecords]}

\* A Node: the address of its span and its child Nodes.
Node(span, kids) == [span |-> span, children |-> kids]

EmptyMap == [k \in {} |-> 0]
Put(m, k, v) == [x \in DOMAIN m \cup {k} |-> IF x = k THEN v ELSE m[x]]

\* An error value: its text and, when the text carries one, the record ordinal.
NoError == [msg |-> "", line |-> <<>>]

VARIABLES
  variant,   \* which mainE runs
  input,     \* the class of inputs the run reads (an element of Inputs)
  pc,        \* where mainE is
  i,         \* part_000: the record counter
  heap,      \* the Span objects allocated so far
  spans,     \* span id -> *Span
  children,  \* parent id -> []*Span
  todo,      \* part_000: the missing ids the orphan loop has yet to visit
  log,       \* the diagnostics logged
  out,       \* the writes to w, in order
  trees,     \* the root Nodes handed to writeSpan(w, nil, .), in order
  err,       \* mainE's returned error, NoError while there is none
  indexed    \* history: the heap as it was when decoding finished

vars == <<variant, input, pc, i, heap, spans, children, todo, log, out,
          trees, err, indexed>>

Init ==
  /\ variant \in {Unnamed, MainGo}
  /\ input \in Inputs
  /\ pc = "decode"
  /\ i = 0
  /\ heap = <<>>
  /\ spans = EmptyMap
  /\ children = EmptyMap
  /\ todo = {}
  /\ log = {}
  /\ out = <<>>
  /\ trees = <<>>
  /\ err = NoError
  /\ indexed = <<>>

(***************************************************************************)
(* slices.SortFunc and slices.MaxFunc                                      *)
(***************************************************************************)

\* One step of insertion sort: n moves left past every element that compares
\* strictly greater, so it lands after the elements whose start is <= its own.
InsertNode(h, sorted, n) ==
  LET NotAfter(x) == h[x.span].start.t <= h[n.span].start.t
      After(x) == h[x.span].start.t > h[n.span].start.t
  IN SelectSeq(sorted, NotAfter) \o <<n>> \o SelectSeq(sorted, After)

RECURSIVE InsertionSort(_, _, _, _)
InsertionSort(h, nodes, k, sorted) ==
  IF k > Len(nodes) THEN sorted
  ELSE InsertionSort(h, nodes, k + 1, InsertNode(h, sorted, nodes[k]))

\* slices.SortFunc(root.Children, by StartTime.Compare).  For the at most 12
\* elements a model of this size sorts, pdqsort is its insertion sort.
SortFunc(h, nodes) == InsertionSort(h, nodes, 1, <<>>)

\* slices.MaxFunc(root.Children, by EndTime.Compare): the first maximal element.
RECURSIVE MaxFunc(_, _, _, _)
MaxFunc(h, nodes, k, best) ==
  IF k > Len(nodes) THEN best
  ELSE MaxFunc(h, nodes, k + 1,
               IF h[nodes[k].span].end.t > h[best.span].end.t THEN nodes[k] ELSE best)

(***************************************************************************)
(* buildTree.  The result is the heap as buildTree leaves it, the Node as    *)
(* buildTree leaves it, and whether the recursion returned (ok) or ran the   *)
(* stack out.                                                                *)
(***************************************************************************)

Built(h, node, ok) == [h |-> h, node |-> node, ok |-> ok]

\* Lines 125-132 of part_000: a root whose StartTime == EndTime takes the
\* first child's StartTime and the maximal child's EndTime, written through
\* root.Span.
Normalize(h, a, sorted) ==
  IF h[a].start = h[a].end
  THEN LET h1 == [h EXCEPT ![a].start = h[sorted[1].span].start]
           last == MaxFunc(h1, sorted, 2, sorted[1])
       IN [h1 EXCEPT ![a].end = h1[last.span].end]
  ELSE h

RECURSIVE buildTree(_, _, _, _)
RECURSIVE buildKids(_, _, _, _, _)

\* The loop of lines 113-119 over kids = children[root's id], from its k-th
\* turn on: one Node per kid, each built before the next.
\* Mutant: the Node built for a kid is given the root's span.
buildKidsOfRoot(h, ch, root, k, depth) ==
  LET kids == ch[h[root.span].id]
  IN IF k > Len(kids) THEN [h |-> h, nodes |-> <<>>, ok |-> TRUE]
     ELSE LET one == buildTree(h, ch, Node(root.span, <<>>), depth + 1)
          IN IF ~one.ok THEN [h |-> one.h, nodes |-> <<>>, ok |-> FALSE]
             ELSE LET rest == buildKids(one.h, ch, root, k + 1, depth)
                  IN [h |-> rest.h, nodes |-> <<one.node>> \o rest.nodes,
                      ok |-> rest.ok]

buildKids(h, ch, root, k, depth) ==
  LET kids == ch[h[root.span].id]
  IN IF k > Len(kids) THEN [h |-> h, nodes |-> <<>>, ok |-> TRUE]
     ELSE LET one == buildTree(h, ch, Node(kids[k], <<>>), depth + 1)
          IN IF ~one.ok THEN [h |-> one.h, nodes |-> <<>>, ok |-> FALSE]
             ELSE LET rest == buildKids(one.h, ch, root, k + 1, depth)
                  IN [h |-> rest.h, nodes |-> <<one.node>> \o rest.nodes,
                      ok |-> rest.ok]

\* Mutant: the kids are put in order by the StartTime they had before they
\* were built.
buildTreeSortsFirst(h, ch, root, depth) ==
  IF depth > MaxDepth THEN Built(h, root, FALSE)
  ELSE IF h[root.span].id \notin DOMAIN ch THEN Built(h, root, TRUE)
  ELSE LET r == buildKids(h, ch, root, 1, depth)
       IN IF ~r.ok THEN Built(r.h, root, FALSE)
          ELSE LET sorted == SortFunc(h, r.nodes)
               IN Built(Normalize(r.h, root.span, sorted), Node(root.span, sorted), TRUE)

buildTree(h, ch, root, depth) ==
  IF depth > MaxDepth THEN Built(h, root, FALSE)
  ELSE IF h[root.span].id \notin DOMAIN ch THEN Built(h, root, TRUE)
  ELSE LET r == buildKids(h, ch, root, 1, depth)
       IN IF ~r.ok THEN Built(r.h, root, FALSE)
          ELSE LET sorted == SortFunc(r.h, r.nodes)
               IN Built(Normalize(r.h, root.span, sorted), Node(root.span, sorted), TRUE)

\* buildTree of main.go: the same recursion and sort, no normalization.
RECURSIVE buildTreeMain(_, _, _, _)
RECURSIVE buildKidsMain(_, _, _, _, _)

buildKidsMain(h, ch, root, k, depth) ==
  LET kids == ch[h[root.span].id]
  IN IF k > Len(kids) THEN [h |-> h, nodes |-> <<>>, ok |-> TRUE]
     ELSE LET one == buildTreeMain(h, ch, Node(kids[k], <<>>), depth + 1)
          IN IF ~one.ok THEN [h |-> one.h, nodes |-> <<>>, ok |-> FALSE]
             ELSE LET rest == buildKidsMain(one.h, ch, root, k + 1, depth)
                  IN [h |-> rest.h, nodes |-> <<one.node>> \o rest.nodes,
                      ok |-> rest.ok]

buildTreeMain(h, ch, root, depth) ==
  IF depth > MaxDepth THEN Built(h, root, FALSE)
  ELSE IF h[root.span].id \notin DOMAIN ch THEN Built(h, root, TRUE)
  ELSE LET r == buildKidsMain(h, ch, root, 1, depth)
       IN IF ~r.ok THEN Built(r.h, root, FALSE)
          ELSE Built(r.h, Node(root.span, SortFunc(r.h, r.nodes)), TRUE)

(***************************************************************************)
(* writeSpan.  The output is the sequence of writes; a write is a record     *)
(* of what the format string is filled with.                                 *)
(***************************************************************************)

NoPad == [cls |-> "none", num |-> 0, den |-> 1]

\* float64(x) / float64(total), times 100: a quotient, or what IEEE division
\* by zero gives.
Pad(x, total) ==
  IF total = 0
  THEN [cls |-> IF x = 0 THEN "NaN" ELSE IF x > 0 THEN "+Inf" ELSE "-Inf",
        num |-> 0, den |-> 0]
  ELSE [cls |-> "num", num |-> 100 * x, den |-> total]

Tok(kind, top, cls, right, left, name, dur, open) ==
  [kind |-> kind, top |-> top, cls |-> cls, right |-> right, left |-> left,
   name |-> name, dur |-> dur, open |-> open]

header == Tok("header", FALSE, "", NoPad, NoPad, "", 0, FALSE)
footer == Tok("footer", FALSE, "", NoPad, NoPad, "", 0, FALSE)
Close(kind) == Tok(kind, FALSE, "", NoPad, NoPad, "", 0, FALSE)

\* The opening <div>: bare for the top node (parent == nil, p = 0), with the
\* two margins for any other.
OpenDiv(h, p, node) ==
  IF p = 0 THEN Tok("div", TRUE, "", NoPad, NoPad, "", 0, FALSE)
  ELSE LET total == h[p].end.t - h[p].start.t
           left == h[node.span].start.t - h[p].start.t
           right == h[p].end.t - h[node.span].end.t
       IN Tok("div", FALSE, IF Len(node.children) = 0 THEN "" ELSE "parent",
              Pad(right, total), Pad(left, total), "", 0, FALSE)

RECURSIVE writeSpan(_, _, _)
RECURSIVE writeKids(_, _, _)

writeKids(h, node, k) ==
  IF k > Len(node.children) THEN <<>>
  ELSE writeSpan(h, node.span, node.children[k]) \o writeKids(h, node, k + 1)

writeSpan(h, p, node) ==
  LET s == h[node.span]
      dur == s.end.t - s.start.t
  IN <<OpenDiv(h, p, node)>>
     \o (IF Len(node.children) = 0
         THEN <<Tok("span", FALSE, "", NoPad, NoPad, s.name, dur, FALSE)>>
         ELSE <<Tok("details", FALSE, "", NoPad, NoPad, s.name, dur, p = 0)>>
              \o writeKids(h, node, 1)
              \o <<Close("/details")>>)
     \o <<Close("/div")>>

\* writeSpan of main.go: the disclosure element is never open.
RECURSIVE writeSpanMain(_, _, _)
RECURSIVE writeKidsMain(_, _, _)

writeKidsMain(h, node, k) ==
  IF k > Len(node.children) THEN <<>>
  ELSE writeSpanMain(h, node.span, node.children[k]) \o writeKidsMain(h, node, k + 1)

writeSpanMain(h, p, node) ==
  LET s == h[node.span]
      dur == s.end.t - s.start.t
  IN <<OpenDiv(h, p, node)>>
     \o (IF Len(node.children) = 0
         THEN <<Tok("span", FALSE, "", NoPad, NoPad, s.name, dur, FALSE)>>
         ELSE <<Tok("details", FALSE, "", NoPad, NoPad, s.name, dur, FALSE)>>
              \o writeKidsMain(h, node, 1)
              \o <<Close("/details")>>)
     \o <<Close("/div")>>

(***************************************************************************)
(* mainE of part_000                                                       *)
(***************************************************************************)

\* Lines 39-46: index the record at address a under its id and its parent id.
IndexSpans(m, rec, a) == Put(m, rec.id, a)
IndexChildren(m, rec, a) ==
  Put(m, rec.parent, Append(IF rec.parent \in DOMAIN m THEN m[rec.parent] ELSE <<>>, a))

\* Lines 49-55: the parent ids that have no span record.
Missing(ch, sp) == DOMAIN ch \ DOMAIN sp

MissingLog(m) == [msg |-> "missing", id |-> m]
NoRootLog == [msg |-> "no root", id |-> ""]

\* The error of line 36: the counter and the decoder's error.
LineError(n) == [msg |-> "line", line |-> <<n>>]

\* One turn of the loop in which Decode succeeds.
Decode ==
  /\ variant = Unnamed
  /\ pc = "decode"
  /\ Len(heap) < input.limit
  /\ i' = i + 1
  /\ \E id \in input.ids, p \in IDs, s \in Times(input.zones), e \in Times(input.zones) :
       LET rec == Span(id, p, "op", s, e)
       IN /\ heap' = Append(heap, rec)
          /\ spans' = IndexSpans(spans, rec, Len(heap) + 1)
          /\ children' = IndexChildren(children, rec, Len(heap) + 1)
  /\ UNCHANGED <<variant, input, pc, todo, log, out, trees, err, indexed>>

\* One turn of the loop in which Decode fails with something other than EOF.
DecodeFail ==
  /\ variant = Unnamed
  /\ pc = "decode"
  /\ i' = i + 1
  /\ err' = LineError(i + 1)
  /\ pc' = "error"
  /\ UNCHANGED <<variant, input, heap, spans, children, todo, log, out,
                 trees, indexed>>

\* The turn in which Decode returns EOF, and lines 49-64 after the loop.
EndOfInput ==
  /\ variant = Unnamed
  /\ pc = "decode"
  /\ i' = i + 1
  /\ indexed' = heap
  /\ log' = {MissingLog(m) : m \in Missing(children, spans)}
              \cup (IF RootID \in DOMAIN children THEN {} ELSE {NoRootLog})
  /\ todo' = IF RootID \in DOMAIN children THEN {} ELSE Missing(children, spans)
  /\ pc' = IF todo' = {} THEN "render" ELSE "orphans"
  /\ UNCHANGED <<variant, input, heap, spans, children, out, trees, err>>

\* One turn of the loop of lines 65-78, for the missing id m (a map is ranged
\* over in no particular order).
BuildMissing(m) ==
  /\ variant = Unnamed
  /\ pc = "orphans"
  /\ m \in todo
  /\ LET a == Len(heap) + 1
         b == buildTree(Append(heap, Span(m, "", "Missing span", ZeroTime, ZeroTime)),
                        children, Node(a, <<>>), 1)
     IN /\ heap' = b.h
        /\ IF b.ok
           THEN /\ out' = out \o writeSpan(b.h, 0, b.node)
                /\ trees' = Append(trees, b.node)
                /\ todo' = todo \ {m}
                /\ pc' = IF todo' = {} THEN "render" ELSE "orphans"
           ELSE /\ pc' = "crashed"
                /\ UNCHANGED <<out, trees, todo>>
  /\ UNCHANGED <<variant, input, i, spans, children, log, err, indexed>>

\* Lines 92-96: the Nodes mainE hangs under the root before buildTree.
RootChildren(ch) ==
  IF RootID \in DOMAIN ch
  THEN [k \in 1 .. Len(ch[RootID]) |-> Node(ch[RootID][k], <<>>)]
  ELSE <<>>

\* Lines 81-103.
Render ==
  /\ variant = Unnamed
  /\ pc = "render"
  /\ LET a == Len(heap) + 1
         b == buildTree(Append(heap, Span(RootID, "", "root", ZeroTime, ZeroTime)),
                        children, Node(a, RootChildren(children)), 1)
     IN /\ heap' = b.h
        /\ IF b.ok
           THEN /\ out' = Append(out, header) \o writeSpan(b.h, 0, b.node) \o <<footer>>
                /\ trees' = Append(trees, b.node)
                /\ pc' = "done"
           ELSE /\ out' = Append(out, header)
                /\ pc' = "crashed"
                /\ UNCHANGED trees
  /\ UNCHANGED <<variant, input, i, spans, children, todo, log, err, indexed>>

(***************************************************************************)
(* mainE of main.go                                                        *)
(***************************************************************************)

MainDecode ==
  /\ variant = MainGo
  /\ pc = "decode"
  /\ Len(heap) < input.limit
  /\ \E id \in input.ids, p \in IDs, s \in Times(input.zones), e \in Times(input.zones) :
       LET rec == Span(id, p, "op", s, e)
       IN /\ heap' = Append(heap, rec)
          /\ spans' = IndexSpans(spans, rec, Len(heap) + 1)
          /\ children' = IndexChildren(children, rec, Len(heap) + 1)
  /\ UNCHANGED <<variant, input, pc, i, todo, log, out, trees, err, indexed>>

\* The decoder's error, returned as it is.
DecodeError == [msg |-> "decode", line |-> <<>>]
NoRootError == [msg |-> "no root", line |-> <<>>]

MainDecodeFail ==
  /\ variant = MainGo
  /\ pc = "decode"
  /\ err' = DecodeError
  /\ pc' = "error"
  /\ UNCHANGED <<variant, input, i, heap, spans, children, todo, log, out,
                 trees, indexed>>

\* The turn in which Decode returns EOF, and lines 46-65 after the loop.
MainEndOfInput ==
  /\ variant = MainGo
  /\ pc = "decode"
  /\ indexed' = heap
  /\ IF RootID \notin DOMAIN children
     THEN /\ err' = NoRootError
          /\ pc' = "error"
          /\ UNCHANGED <<heap, out, trees>>
     ELSE IF Len(children[RootID]) # 1
     THEN /\ pc' = "panic"
          /\ UNCHANGED <<heap, out, trees, err>>
     ELSE LET b == buildTreeMain(heap, children, Node(children[RootID][1], <<>>), 1)
          IN /\ heap' = b.h
             /\ UNCHANGED err
             /\ IF b.ok
                THEN /\ out' = <<header>> \o writeSpanMain(b.h, 0, b.node) \o <<footer>>
                     /\ trees' = <<b.node>>
                     /\ pc' = "done"
                ELSE /\ pc' = "crashed"
                     /\ UNCHANGED <<out, trees>>
  /\ UNCHANGED <<variant, input, i, spans, children, todo, log>>

Next ==
  \/ Decode
  \/ DecodeFail
  \/ EndOfInput
  \/ \E m \in todo : BuildMissing(m)
  \/ Render
  \/ MainDecode
  \/ MainDecodeFail
  \/ MainEndOfInput

Spec == Init /\ [][Next]_vars

(***************************************************************************)
(* What the properties below speak of                                      *)
(***************************************************************************)

\* Every Node of a tree, the root first; a Node that occurs twice is twice in it.
RECURSIVE AllNodes(_)
RECURSIVE NodesOf(_, _)
NodesOf(nodes, k) ==
  IF k > Len(nodes) THEN <<>> ELSE AllNodes(nodes[k]) \o NodesOf(nodes, k + 1)
AllNodes(node) == <<node>> \o NodesOf(node.children, 1)

\* Every Node of every tree mainE has built and rendered.
TreeNodes == NodesOf(trees, 1)

\* The Nodes below the roots of those trees.
RECURSIVE InnerFrom(_)
InnerFrom(k) ==
  IF k > Len(trees) THEN <<>> ELSE NodesOf(trees[k].children, 1) \o InnerFrom(k + 1)
InnerNodes == InnerFrom(1)

\* The decoder has read the whole input and mainE has not failed since.
Decoded == pc \in {"orphans", "render", "done"}

\* Decode failed on a record.
DecodeFailed == pc = "error" /\ err.msg # "no root"

\* A span built by mainE itself, not read from the input.
Synthetic(a) == a > Len(indexed)

\* The times a span was recorded with: as decoded, or zero for a synthetic one.
Recorded(a) == IF Synthetic(a) THEN [start |-> ZeroTime, end |-> ZeroTime]
               ELSE [start |-> indexed[a].start, end |-> indexed[a].end]

UniqueIDs == \A a, b \in 1 .. Len(indexed) : indexed[a].id = indexed[b].id => a = b
NoSentinelID == \A a \in 1 .. Len(indexed) : indexed[a].id # RootID

\* The decoded records reachable from the ids in from by parent-to-child edges.
RECURSIVE Reach(_, _)
Reach(from, seen) ==
  LET new == {a \in 1 .. Len(indexed) : indexed[a].parent \in from} \ seen
  IN IF new = {} THEN seen ELSE Reach({indexed[a].id : a \in new}, seen \cup new)

NoCycles == \A a \in 1 .. Len(indexed) : a \notin Reach({indexed[a].id}, {})

\* The top-level containers in the output.
TopDivs == {k \in 1 .. Len(out) : out[k].kind = "div" /\ out[k].top}

\* A tree rooted at a synthetic "Missing span" with id m, holding the spans
\* whose parent is m, has been rendered.
MissingRendered(m) ==
  /\ \E k \in 1 .. Len(trees) :
       /\ heap[trees[k].span].id = m
       /\ heap[trees[k].span].name = "Missing span"
       /\ Len(trees[k].children) = Len(children[m])
  /\ \E k \in 1 .. Len(out) : out[k].name = "Missing span"

\* The Nodes of decoded spans, each as often as it occurs.
DecodedNodes == SelectSeq(TreeNodes, LAMBDA n : ~Synthetic(n.span))

\* The children of node are in ascending order of their spans' present start.
Sorted(node) ==
  \A k \in 1 .. Len(node.children) - 1 :
    heap[node.children[k].span].start.t <= heap[node.children[k + 1].span].start.t

Starts(node) == {heap[node.children[k].span].start.t : k \in 1 .. Len(node.children)}
Ends(node) == {heap[node.children[k].span].end.t : k \in 1 .. Len(node.children)}

\* node's span has the range the claim C6 gives it.
Normalized(node) ==
  LET a == node.span
  IN IF Recorded(a).start.t = Recorded(a).end.t
     THEN /\ \A t \in Starts(node) : heap[a].start.t <= t
          /\ heap[a].start.t \in Starts(node)
          /\ \A t \in Ends(node) : heap[a].end.t >= t
          /\ heap[a].end.t \in Ends(node)
     ELSE /\ heap[a].start.t = Recorded(a).start.t
          /\ heap[a].end.t = Recorded(a).end.t

\* The guards of BuildMissing and of Render: one of the two can step.
CanStep == (pc = "orphans" /\ todo # {}) \/ pc = "render"

(***************************************************************************)
(* The claims                                                              *)
(***************************************************************************)

\* C1.  When Decode fails on the k-th record, mainE returns an error that
\* names the ordinal k and nothing has been written to the output; and while
\* records are still being decoded nothing has been written.  (Fails: mainE
\* of main.go returns the decoder's error as it is.)
C1_ErrorNamesOrdinal ==
  /\ DecodeFailed => (err.line = <<Len(heap) + 1>> /\ out = <<>>)
  /\ pc = "decode" => out = <<>>

\* C2.  A run that ends normally has written the header first, the footer
\* last, and exactly one top-level container, after the header.  (Fails:
\* part_000 writes each missing-parent container before the header, and the
\* root container as well.)
C2_HeaderContainerFooter ==
  pc = "done" =>
    /\ Len(out) >= 3
    /\ out[1] = header
    /\ out[Len(out)] = footer
    /\ Cardinality(TopDivs) = 1

\* C3.  part_000: for every parent id other than the sentinel that is
\* referenced but has no span record, the id is logged as missing and the
\* output holds a container named "Missing span", rooted at that id, with the
\* orphans under it, whether or not there are root spans.  (Fails: with a
\* root span in the input the orphans are logged and not rendered.)
C3_OrphansRendered ==
  (variant = Unnamed /\ pc = "done") =>
    \A m \in Missing(children, spans) \ {RootID} :
      MissingLog(m) \in log /\ MissingRendered(m)

\* C4.  part_000: for an input with unique span ids and no cycles, the trees
\* mainE builds and renders hold as many Nodes of decoded spans as there are
\* spans reachable from the sentinel or from a missing parent id.  (Fails:
\* with a root span in the input no tree is built for the orphans.)
C4_NodeCount ==
  (variant = Unnamed /\ pc = "done" /\ UniqueIDs /\ NoCycles) =>
    Len(DecodedNodes)
      = Cardinality(Reach({RootID} \cup Missing(children, spans), {}))

\* C5.  In every tree mainE has built, the children of every Node are in
\* ascending order of StartTime, read from the spans as they now are, that is
\* after any point span among them was given its own children's range.
C5_ChildrenSorted == \A k \in 1 .. Len(TreeNodes) : Sorted(TreeNodes[k])

\* A finished run over unique ids with two siblings of which the later one
\* arrived first and was recorded no later than the other: it owes its place
\* to the start it took from its own children.
C5_Witness ==
  /\ pc = "done"
  /\ UniqueIDs
  /\ \E k \in 1 .. Len(TreeNodes) :
       \E j \in 1 .. Len(TreeNodes[k].children) - 1 :
         LET x == TreeNodes[k].children[j].span
             y == TreeNodes[k].children[j + 1].span
         IN /\ y < x
            /\ Recorded(y).start.t <= Recorded(x).start.t
            /\ heap[x].start.t < heap[y].start.t

\* C6.  part_000: a Node with children whose span was recorded with a
\* startTime equal to its endTime (the same instant) ends with the least
\* startTime and the greatest endTime of its children; any other Node with
\* children keeps the range it was recorded with.  (Fails: the code compares
\* the two time.Time values with ==, which also compares their locations.)
C6_PointSpanNormalized ==
  variant = Unnamed =>
    \A k \in 1 .. Len(TreeNodes) :
      Len(TreeNodes[k].children) > 0 => Normalized(TreeNodes[k])

\* C7.  part_000: every margin written is a quotient by a parent duration
\* other than zero; under a parent of zero duration the margins are 0%, never
\* the result of a division by zero.  (Fails: writeSpan divides unguarded.)
C7_ZeroParentZeroMargin ==
  variant = Unnamed =>
    \A k \in 1 .. Len(out) :
      (out[k].kind = "div" /\ ~out[k].top) =>
        /\ out[k].left.cls = "num"
        /\ out[k].right.cls = "num"

\* C8.  part_000: after assembly every Node below a root holds the record
\* that SpanIndex holds under its span's id, and no record is held by two
\* Nodes; of two records with one id only the later is in the tree.  (Fails:
\* the tree is built from ChildrenIndex, which keeps both records.)
C8_NodesOwnIndexedSpans ==
  (variant = Unnamed /\ pc = "done") =>
    /\ \A k \in 1 .. Len(InnerNodes) :
         spans[heap[InnerNodes[k].span].id] = InnerNodes[k].span
    /\ \A j, k \in 1 .. Len(TreeNodes) :
         TreeNodes[j].span = TreeNodes[k].span => j = k

\* C9.  part_000: assembly leaves every decoded record, its startTime and
\* endTime included, as decoding left it.  (Fails: buildTree writes the
\* children's range into the record of a point span.)
C9_IndexUnchanged ==
  (variant = Unnamed /\ Decoded) => SubSeq(heap, 1, Len(indexed)) = indexed

\* C10.  part_000: once an input whose span ids are pairwise distinct and
\* none of which is the sentinel has been decoded, no buildTree call runs the
\* stack out (each one returns), mainE has its next step to take until it is
\* done, and it is done with the footer written.  Each step after decoding
\* takes one id off todo or ends the run, so the run ends.
C10_Terminates ==
  (variant = Unnamed /\ pc \notin {"decode", "error"} /\ UniqueIDs /\ NoSentinelID)
    => /\ pc # "crashed"
       /\ pc = "done" => out[Len(out)] = footer
       /\ pc # "done" => CanStep

\* A finished run over such an input in which some span is its own ancestor
\* (a cycle of parent ids) beside a span that is rendered.
C10_Witness ==
  /\ variant = Unnamed
  /\ pc = "done"
  /\ out[Len(out)] = footer
  /\ UniqueIDs
  /\ NoSentinelID
  /\ ~NoCycles
  /\ \E k \in 1 .. Len(TreeNodes) : ~Synthetic(TreeNodes[k].span)
====
